---- MODULE Spec2Model ----
(***************************************************************************)
(* Liked-songs cache reconciliation and random selection of                *)
(* marysia/spotify-shuffle: get_liked_songs.py and update_true_shuffle.py. *)
(*                                                                         *)
(* Python values, JSON text and ISO-8601 strings are modelled as tagged    *)
(* records, so that json.dump / json.load and datetime.fromisoformat are   *)
(* conversions between different representations.                          *)
(***************************************************************************)
EXTENDS Integers, Sequences, FiniteSets, TLC

(***************************************************************************)
(* Bounds of the model.                                                    *)
(***************************************************************************)
\* The clock reads StartTime in the initial state and is advanced up to MaxTime.
StartTime == 2
MaxTime == 3
\* Largest number of items the remote collection holds initially.
MaxInitRemote == 2
\* Largest number of 'like' events of the remote user.
MaxLikes == 1
\* Largest number of runs of the script.
MaxRuns == 2
\* Largest requested number of songs (num_songs).
MaxNumSongs == 3

\* Page size of the liked-items endpoint (limit=50 in the source), scaled.
PageLimit == 2

(***************************************************************************)
(* Text of strings.  A string is a record [fmt, t, off]:                   *)
(*   "Z"      2023-01-01T00:00:0tZ           UTC, trailing Z               *)
(*   "offset" 2023-01-01T00:00:0t+off:00     explicit offset               *)
(*   "naive"  2023-01-01T00:00:0t            no offset                     *)
(*   "bad"    text that is no ISO-8601 timestamp                           *)
(*   "empty"  the empty string                                             *)
(*   "uri"    spotify:track:t                                              *)
(***************************************************************************)
Text(fmt, t, off) == [fmt |-> fmt, t |-> t, off |-> off]
ZText(t) == Text("Z", t, 0)
OffsetText(t, off) == Text("offset", t, off)
NaiveText(t) == Text("naive", t, 0)
BadText == Text("bad", 0, 0)
EmptyText == Text("empty", 0, 0)
UriText(n) == Text("uri", n, 0)

(***************************************************************************)
(* Python values.                                                          *)
(***************************************************************************)
None == [py |-> "None"]
PyStr(text) == [py |-> "str", text |-> text]
PyInt(n) == [py |-> "int", n |-> n]
PyList(items) == [py |-> "list", items |-> items]
PyDict(d) == [py |-> "dict", d |-> d]
Raise(exc) == [py |-> "raise", exc |-> exc]

IsNone(v) == v.py = "None"
IsRaise(v) == v.py = "raise"

(***************************************************************************)
(* datetime: [ok, t, aware, off]; the instant of an aware datetime is      *)
(* t - off.                                                                *)
(***************************************************************************)
DateTime(t, aware, off) == [ok |-> TRUE, t |-> t, aware |-> aware, off |-> off]
ValueError == [ok |-> FALSE, t |-> 0, aware |-> FALSE, off |-> 0]

\* str.replace('Z', '+00:00')
ReplaceZ(text) ==
    IF text.fmt = "Z" THEN OffsetText(text.t, 0) ELSE text

\* datetime.fromisoformat: an offset string gives an aware datetime, a naive
\* one a naive datetime, anything else raises ValueError.
fromisoformat(text) ==
    CASE text.fmt = "offset" -> DateTime(text.t, TRUE, text.off)
      [] text.fmt = "naive" -> DateTime(text.t, FALSE, 0)
      [] OTHER -> ValueError

\* dt.replace(tzinfo=timezone.utc)
ReplaceTzUtc(dt) == DateTime(dt.t, TRUE, 0)

\* Mutant of isoformat: datetime.now().isoformat(), the naive local time of a
\* machine one hour behind UTC.
isoformat_local(t) == NaiveText(t - 1)

\* datetime.now(timezone.utc).isoformat()
isoformat(t) == OffsetText(t, 0)

\* The instant of an aware datetime, what the comparison of two aware
\* datetimes compares.
Instant(dt) == dt.t - dt.off

(***************************************************************************)
(* JSON text, as json.dump writes it and json.load reads it.  An object is *)
(* the sequence of its members in the order they are written.              *)
(***************************************************************************)
JNull == [js |-> "null"]
JString(text) == [js |-> "string", text |-> text]
JNumber(n) == [js |-> "number", n |-> n]
JArray(elems) == [js |-> "array", elems |-> elems]
JObject(members) == [js |-> "object", members |-> members]
JGarbage == [js |-> "garbage"]
Member(k, v) == [key |-> k, value |-> v]

\* The order in which the keys of a dict are written (insertion order).
KeyOrder == <<"timestamp", "total_count", "tracks", "added_at", "track", "uri">>

KeysOf(d) == SelectSeq(KeyOrder, LAMBDA k : k \in DOMAIN d)

RECURSIVE json_dump(_)
json_dump(v) ==
    CASE v.py = "None" -> JNull
      [] v.py = "str" -> JString(v.text)
      [] v.py = "int" -> JNumber(v.n)
      [] v.py = "list" ->
            JArray([i \in 1..Len(v.items) |-> json_dump(v.items[i])])
      [] v.py = "dict" ->
            LET ks == KeysOf(v.d)
            IN  JObject([i \in 1..Len(ks) |-> Member(ks[i], json_dump(v.d[ks[i]]))])

\* The value json.load gives a key: that of its last member.
LastMember(members, k) ==
    LET idx == {i \in 1..Len(members) : members[i].key = k}
        last == CHOOSE i \in idx : \A j \in idx : j <= i
    IN  members[last].value

RECURSIVE json_load(_)
json_load(j) ==
    CASE j.js = "garbage" -> Raise("JSONDecodeError")
      [] j.js = "null" -> None
      [] j.js = "string" -> PyStr(j.text)
      [] j.js = "number" -> PyInt(j.n)
      [] j.js = "array" ->
            PyList([i \in 1..Len(j.elems) |-> json_load(j.elems[i])])
      [] j.js = "object" ->
            LET keys == {j.members[i].key : i \in 1..Len(j.members)}
            IN  PyDict([k \in keys |-> json_load(LastMember(j.members, k))])

\* dict.get(key, default)
DictGet(d, key, default) == IF key \in DOMAIN d THEN d[key] ELSE default

(***************************************************************************)
(* Cache store.  The file LIKED_SONGS_CACHE_FILE is [exists, content].     *)
(***************************************************************************)
NoFile == [exists |-> FALSE, content |-> JNull]
File(content) == [exists |-> TRUE, content |-> content]

\* Mutant of TotalCount: the number of keys of cache_data instead of len(tracks).
TotalCountOfKeys(tracks) == 3

\* len(tracks) as save_liked_songs_to_disk stores it in total_count.
TotalCount(tracks) == Len(tracks.items)

\* cache_data of save_liked_songs_to_disk, written at clock reading t.
CacheData(tracks, t) ==
    PyDict([timestamp |-> PyStr(isoformat(t)),
            total_count |-> PyInt(TotalCount(tracks)),
            tracks |-> tracks])

save_liked_songs_to_disk(tracks, t) == File(json_dump(CacheData(tracks, t)))

\* load_liked_songs_from_disk: [exc, tracks, timestamp]; exc = "" when the
\* call returns, else the exception that leaves it.
Loaded(tracks, timestamp) == [exc |-> "", tracks |-> tracks, timestamp |-> timestamp]
LoadRaises(exc) == [exc |-> exc, tracks |-> None, timestamp |-> None]

load_liked_songs_from_disk(file) ==
    IF ~file.exists THEN Loaded(None, None)
    ELSE LET cache_data == json_load(file.content)
         IN  IF IsRaise(cache_data) THEN Loaded(None, None)
             ELSE IF cache_data.py # "dict" THEN LoadRaises("AttributeError")
             ELSE Loaded(DictGet(cache_data.d, "tracks", PyList(<<>>)),
                         DictGet(cache_data.d, "timestamp", PyStr(EmptyText)))

(***************************************************************************)
(* Timestamp handling of get_new_liked_songs_since.                        *)
(***************************************************************************)
\* 'Z' in s
ContainsZ(text) == text.fmt = "Z"
\* '+' in s or s.count('-') > 2
ContainsOffset(text) == text.fmt = "offset"

\* if dt.tzinfo is None: dt = dt.replace(tzinfo=timezone.utc)
EnsureAware(dt) == IF dt.ok /\ ~dt.aware THEN ReplaceTzUtc(dt) ELSE dt

\* Mutant of ParseSince: a timestamp with a UTC offset, as isoformat() writes
\* it, is rejected.
ParseSinceRejectsOffset(text) ==
    IF ContainsOffset(text) THEN ValueError
    ELSE EnsureAware(fromisoformat(ReplaceZ(text)))

\* since_dt of a since_timestamp string, or ValueError.
ParseSince(text) ==
    LET dt == IF ContainsZ(text) \/ ContainsOffset(text)
              THEN fromisoformat(ReplaceZ(text))
              ELSE LET naive == fromisoformat(text)
                   IN  IF naive.ok THEN ReplaceTzUtc(naive) ELSE naive
    IN  EnsureAware(dt)

\* added_at of an item's added_at string, or ValueError.
ParseAddedAt(text) ==
    LET dt == IF ContainsZ(text) THEN fromisoformat(ReplaceZ(text))
              ELSE IF ContainsOffset(text) THEN fromisoformat(text)
              ELSE LET naive == fromisoformat(text)
                   IN  IF naive.ok THEN ReplaceTzUtc(naive) ELSE naive
    IN  EnsureAware(dt)

\* Mutant of AddedAfter: an item added exactly at since_dt counts as new.
AddedAtOrAfter(added_at, since_dt) == Instant(added_at) >= Instant(since_dt)

\* added_at > since_dt
AddedAfter(added_at, since_dt) == Instant(added_at) > Instant(since_dt)

\* What the body of the loop over all_tracks does with one item: "new"
\* (appended to new_tracks), "skip" (KeyError or ValueError caught, continue)
\* or "old".
Classify(item, since_dt) ==
    IF "added_at" \notin DOMAIN item.d THEN "skip"
    ELSE LET added_at == ParseAddedAt(item.d["added_at"].text)
         IN  IF ~added_at.ok THEN "skip"
             ELSE IF AddedAfter(added_at, since_dt) THEN "new"
             ELSE "old"

\* Mutant of NewTracksOf: one item without a usable added_at makes the whole
\* check indeterminate.
NewTracksOfStrict(all_tracks, since_timestamp) ==
    LET since_dt == ParseSince(since_timestamp.text)
    IN  IF ~since_dt.ok THEN None
        ELSE IF \E i \in 1..Len(all_tracks) : Classify(all_tracks[i], since_dt) = "skip"
        THEN None
        ELSE PyList(SelectSeq(all_tracks, LAMBDA item : Classify(item, since_dt) = "new"))

\* new_tracks of get_new_liked_songs_since, once all_tracks is collected:
\* None when the cache timestamp does not parse.
NewTracksOf(all_tracks, since_timestamp) ==
    LET since_dt == ParseSince(since_timestamp.text)
    IN  IF ~since_dt.ok THEN None
        ELSE PyList(SelectSeq(all_tracks, LAMBDA item : Classify(item, since_dt) = "new"))

(***************************************************************************)
(* The remote liked-items collection and its paginated endpoint.           *)
(***************************************************************************)
Track(n) == PyDict([uri |-> PyStr(UriText(n))])
Item(n, added) == PyDict([added_at |-> PyStr(added), track |-> Track(n)])
ItemNoAdded(n) == PyDict([track |-> Track(n)])

Min(a, b) == IF a < b THEN a ELSE b

\* One page of the collection: sp.current_user_saved_tracks(limit) for
\* offset 0, sp.next(results) for the offset results['next'] names.  next = 0
\* stands for None.
Page(collection, offset) ==
    [items |-> SubSeq(collection, offset + 1, Min(offset + PageLimit, Len(collection))),
     next |-> IF offset + PageLimit < Len(collection) THEN offset + PageLimit ELSE 0]

(***************************************************************************)
(* State.                                                                  *)
(***************************************************************************)
VARIABLES
    now,              \* the clock, read by datetime.now(timezone.utc)
    remote,           \* the user's liked items on the remote service
    likes,            \* number of 'like' events so far
    cacheFile,        \* LIKED_SONGS_CACHE_FILE
    runs,             \* number of runs started
    pc,               \* position of the run
    save_to_disk,     \* get_liked_songs parameters
    use_cache,
    cached_tracks,    \* get_liked_songs locals
    cache_timestamp,
    new_tracks,
    tracks,
    all_tracks,       \* local of get_new_liked_songs_since
    next,             \* results['next'] of the page loop in progress
    returned,         \* the list get_liked_songs returned
    exc,              \* the exception that ended the run, "" if none
    requested,        \* num_songs as passed to update_true_shuffle
    num_songs,        \* num_songs after the clamp
    warned,           \* the "Warning: You only have ..." message was printed
    positions,        \* the positions random.sample drew
    random_tracks,    \* update_true_shuffle locals
    track_uris,
    calls,            \* page requests of this run: [check, fetch]
    passes,           \* complete passes over the collection: [check, fetch]
    stable,           \* the remote collection has not changed during this run
    fileAtStart,      \* the cache file when this run started
    saved,            \* the last save_liked_songs_to_disk call: [done, run, tracks, at]
    playlists,        \* the playlists of the remote service, by id
    playlistsAtStart, \* the playlists when update_true_shuffle started
    playlist_id,      \* update_true_shuffle local: the resolved destination
    tracks_to_remove, \* clear_playlist locals
    remove_uris,
    items_next,       \* results['next'] of the membership page loop
    batch_start,      \* i of the batch loop in progress
    outstanding,      \* requests the service has not answered yet (indices of log)
    log               \* the playlist requests issued, in order: [op, id, uris, result]

envVars == <<now, remote, likes>>
paramVars == <<save_to_disk, use_cache>>
localVars == <<cached_tracks, cache_timestamp, new_tracks, tracks, all_tracks, next,
               returned, exc>>
selVars == <<requested, num_songs, warned, positions, random_tracks, track_uris>>
ghostVars == <<calls, passes, stable, fileAtStart>>
plVars == <<playlists, playlistsAtStart, playlist_id, tracks_to_remove, remove_uris,
            items_next, batch_start, outstanding, log>>
vars == <<envVars, cacheFile, runs, pc, paramVars, localVars, selVars, ghostVars, saved,
          plVars>>

\* A playlist of the service: [exists, public, members].
NoPlaylist == [exists |-> FALSE, public |-> FALSE, members |-> <<>>]
Playlist(public, members) == [exists |-> TRUE, public |-> public, members |-> members]

\* TRUE_SHUFFLE_PLAYLIST_ID, and the id the service gives a playlist it creates.
ConfiguredId == "configured"
CreatedId == "created"
PlaylistIds == {ConfiguredId, CreatedId}

\* No update_true_shuffle run: get_liked_songs is run on its own.
NoShuffleRun ==
    /\ playlists = [id \in PlaylistIds |-> NoPlaylist]
    /\ playlistsAtStart = playlists
    /\ playlist_id = ""
    /\ tracks_to_remove = <<>>
    /\ remove_uris = <<>>
    /\ items_next = 0
    /\ batch_start = 0
    /\ outstanding = <<>>
    /\ log = <<>>

(***************************************************************************)
(* Initial state: the clock reads StartTime, the remote collection holds   *)
(* up to MaxInitRemote items liked at or before StartTime, and the cache   *)
(* file is absent, malformed, or holds a snapshot taken at or before       *)
(* StartTime.                                                              *)
(***************************************************************************)
\* added_at strings of the most recently liked initial item (instants 1, 2,
\* 2 and none) and of the older ones (instant 1 and none).
AddedPool == {ZText(1), OffsetText(3, 1), NaiveText(2), BadText}
OlderAddedPool == {ZText(1), BadText}

InitItems(n) ==
    IF n = 1 THEN {Item(n, a) : a \in AddedPool} \cup {ItemNoAdded(n)}
    ELSE {Item(n, a) : a \in OlderAddedPool}

\* The collection, most recently liked first.
InitRemotes ==
    UNION {{r \in [1..n -> UNION {InitItems(i) : i \in 1..n}] :
                \A i \in 1..n : r[i] \in InitItems(i)} : n \in 0..MaxInitRemote}

\* An item that was in the collection when the snapshot was taken, unliked since.
StaleItem == Item(9, ZText(1))

Rest(s) == IF s = <<>> THEN <<>> ELSE Tail(s)

\* Track lists of an initial snapshot.
InitCachedLists(r) == {r, Rest(r), <<StaleItem>>}

\* timestamp strings of an initial snapshot: instants 1, 2, 0, and no timestamp.
TimestampPool == {ZText(1), OffsetText(2, 0), NaiveText(0), BadText}

SnapshotText(ts, items) ==
    JObject(<<Member("timestamp", ts),
              Member("total_count", JNumber(Len(items))),
              Member("tracks", json_dump(PyList(items)))>>)

InitFiles(r) ==
    {NoFile, File(JGarbage), File(JArray(<<>>)), File(JNull)}
    \cup {File(SnapshotText(JString(ts), items)) :
             ts \in TimestampPool, items \in InitCachedLists(r)}
    \cup {File(SnapshotText(JNull, items)) : items \in InitCachedLists(r)}
    \cup {File(JObject(<<Member("total_count", JNumber(Len(items))),
                         Member("tracks", json_dump(PyList(items)))>>)) :
             items \in InitCachedLists(r)}
    \cup {File(JObject(<<Member("timestamp", JString(ZText(1)))>>)),
          File(JObject(<<Member("timestamp", JString(ZText(1))),
                         Member("tracks", JNull)>>))}

NoCalls == [check |-> 0, fetch |-> 0]
NoSave == [done |-> FALSE, run |-> 0, tracks |-> None, at |-> 0]

Init ==
    /\ now = StartTime
    /\ remote \in InitRemotes
    /\ likes = 0
    /\ cacheFile \in InitFiles(remote)
    /\ runs = 0
    /\ pc = "idle"
    /\ save_to_disk = TRUE
    /\ use_cache = TRUE
    /\ cached_tracks = None
    /\ cache_timestamp = None
    /\ new_tracks = None
    /\ tracks = <<>>
    /\ all_tracks = <<>>
    /\ next = 0
    /\ returned = None
    /\ exc = ""
    /\ requested = 0
    /\ num_songs = 0
    /\ warned = FALSE
    /\ positions = <<>>
    /\ random_tracks = <<>>
    /\ track_uris = <<>>
    /\ calls = NoCalls
    /\ passes = NoCalls
    /\ stable = TRUE
    /\ fileAtStart = cacheFile
    /\ saved = NoSave
    /\ NoShuffleRun

(***************************************************************************)
(* get_liked_songs.                                                        *)
(***************************************************************************)
\* Mutant of Decide: the branches on len(new_tracks) swapped.
DecideSwapped(new) ==
    IF ~IsNone(new)
    THEN IF Len(new.items) > 0 THEN "cache" ELSE "refetch"
    ELSE "refetch"

\* Mutant of Decide: "if not new_tracks", which takes None for an empty list.
DecideFalsy(new) ==
    IF IsNone(new) THEN "cache"
    ELSE IF Len(new.items) > 0 THEN "refetch" ELSE "cache"

\* The branch get_liked_songs takes on new_tracks: "cache" returns
\* cached_tracks, "refetch" falls through to the full fetch.
Decide(new) ==
    IF ~IsNone(new)
    THEN IF Len(new.items) > 0 THEN "refetch" ELSE "cache"
    ELSE "refetch"

\* Mutant of CacheHitReturn: the items the change check collected are merged
\* into the cached list.
CacheHitReturnMerged == PyList(cached_tracks.items \o all_tracks')

\* return cached_tracks
CacheHitReturn == cached_tracks

\* return tracks, for the list the page loop accumulated
FullFetchReturn(fetched) == PyList(fetched)

\* Mutant of Extend: assignment instead of extend, the last page replaces the list.
ExtendReplaces(list, items) == items

\* list.extend
Extend(list, items) == list \o items

ResetSelection ==
    /\ requested' = 0
    /\ num_songs' = 0
    /\ warned' = FALSE
    /\ positions' = <<>>
    /\ random_tracks' = <<>>
    /\ track_uris' = <<>>

\* A run calls get_liked_songs(save_to_disk=s, use_cache=u): the cache is
\* loaded and, up to the first request to the remote service, the branch is
\* chosen.
Start(s, u) ==
    /\ pc \in {"idle", "returned", "raised"}
    /\ runs < MaxRuns
    /\ runs' = runs + 1
    /\ save_to_disk' = s
    /\ use_cache' = u
    /\ calls' = NoCalls
    /\ passes' = NoCalls
    /\ stable' = TRUE
    /\ fileAtStart' = cacheFile
    /\ ResetSelection
    /\ tracks' = <<>>
    /\ all_tracks' = <<>>
    /\ next' = 0
    /\ IF u
       THEN LET l == load_liked_songs_from_disk(cacheFile)
            IN  IF l.exc # ""
                THEN /\ pc' = "raised"
                     /\ exc' = l.exc
                     /\ cached_tracks' = None
                     /\ cache_timestamp' = None
                     /\ new_tracks' = None
                     /\ returned' = None
                ELSE /\ exc' = ""
                     /\ cached_tracks' = l.tracks
                     /\ cache_timestamp' = l.timestamp
                     /\ new_tracks' = None
                     /\ IF IsNone(l.tracks)
                        THEN /\ pc' = "fetch"
                             /\ returned' = None
                        ELSE IF IsNone(l.timestamp)
                        \* get_new_liked_songs_since returns None at once
                        THEN IF Decide(None) = "cache"
                             THEN /\ pc' = "returned"
                                  /\ returned' = l.tracks
                             ELSE /\ pc' = "fetch"
                                  /\ returned' = None
                        ELSE /\ pc' = "check"
                             /\ returned' = None
       ELSE /\ pc' = "fetch"
            /\ exc' = ""
            /\ cached_tracks' = None
            /\ cache_timestamp' = None
            /\ new_tracks' = None
            /\ returned' = None
    /\ UNCHANGED plVars
    /\ UNCHANGED <<envVars, cacheFile, saved>>

\* One page request of get_new_liked_songs_since; after the last page the
\* items are classified and get_liked_songs takes its branch.
CheckPage ==
    /\ pc = "check"
    /\ LET results == Page(remote, next)
           all == Extend(all_tracks, results.items)
       IN  /\ all_tracks' = all
           /\ calls' = [calls EXCEPT !.check = @ + 1]
           /\ IF results.next # 0
              THEN /\ next' = results.next
                   /\ UNCHANGED <<pc, new_tracks, returned, passes>>
              ELSE LET new == NewTracksOf(all, cache_timestamp)
                   IN  /\ passes' = [passes EXCEPT !.check = @ + 1]
                       /\ new_tracks' = new
                       /\ next' = 0
                       /\ IF Decide(new) = "cache"
                          THEN /\ pc' = "returned"
                               /\ returned' = CacheHitReturn
                          ELSE /\ pc' = "fetch"
                               /\ UNCHANGED returned
    /\ UNCHANGED plVars
    /\ UNCHANGED <<envVars, cacheFile, runs, paramVars, cached_tracks, cache_timestamp,
                   tracks, exc, selVars, stable, fileAtStart, saved>>

\* Mutant of ShouldSave: the snapshot is saved whatever the parameter says.
ShouldSaveAlways(flag) == TRUE

\* if save_to_disk:
ShouldSave(flag) == flag

\* One page request of the full fetch; after the last page the snapshot is
\* saved (if save_to_disk) and the list returned.
FetchPage ==
    /\ pc = "fetch"
    /\ LET results == Page(remote, next)
           fetched == Extend(tracks, results.items)
       IN  /\ tracks' = fetched
           /\ calls' = [calls EXCEPT !.fetch = @ + 1]
           /\ IF results.next # 0
              THEN /\ next' = results.next
                   /\ UNCHANGED <<pc, returned, passes, cacheFile, saved>>
              ELSE /\ passes' = [passes EXCEPT !.fetch = @ + 1]
                   /\ next' = 0
                   /\ pc' = "returned"
                   /\ returned' = FullFetchReturn(fetched)
                   /\ IF ShouldSave(save_to_disk)
                      THEN /\ cacheFile' = save_liked_songs_to_disk(PyList(fetched), now)
                           /\ saved' = [done |-> TRUE, run |-> runs,
                                        tracks |-> PyList(fetched), at |-> now]
                      ELSE UNCHANGED <<cacheFile, saved>>
    /\ UNCHANGED plVars
    /\ UNCHANGED <<envVars, runs, paramVars, cached_tracks, cache_timestamp, new_tracks,
                   all_tracks, exc, selVars, stable, fileAtStart>>

(***************************************************************************)
(* Selection of update_true_shuffle.                                       *)
(***************************************************************************)
\* num_songs after "if len(liked_tracks) < num_songs: num_songs = len(liked_tracks)"
Clamp(len, k) == IF len < k THEN len ELSE k

\* The clamp warning is printed.
ClampWarns(len, k) == len < k

\* Mutant of Sample: drawing with replacement (random.choices).
SampleWithReplacement(len, k) == [1..k -> 1..len]

\* random.sample(population, k), as the positions drawn from a population of
\* len items: k distinct positions in any order.
Sample(len, k) ==
    {p \in [1..k -> 1..len] : \A i, j \in 1..k : i # j => p[i] # p[j]}

\* get_track_uris
get_track_uris(items) == [i \in 1..Len(items) |-> items[i].d["track"].d["uri"]]

Select(k) ==
    /\ pc = "returned"
    /\ LET liked_tracks == returned.items
           n == Clamp(Len(liked_tracks), k)
       IN  /\ requested' = k
           /\ num_songs' = n
           /\ warned' = ClampWarns(Len(liked_tracks), k)
           /\ \E p \in Sample(Len(liked_tracks), n) :
                 /\ positions' = p
                 /\ random_tracks' = [i \in 1..n |-> liked_tracks[p[i]]]
                 /\ track_uris' = get_track_uris([i \in 1..n |-> liked_tracks[p[i]]])
    /\ pc' = "selected"
    /\ UNCHANGED plVars
    /\ UNCHANGED <<envVars, cacheFile, runs, paramVars, localVars, ghostVars, saved>>

(***************************************************************************)
(* Environment: the clock and the remote user.                             *)
(***************************************************************************)
Tick ==
    /\ now < MaxTime
    /\ now' = now + 1
    /\ UNCHANGED plVars
    /\ UNCHANGED <<remote, likes, cacheFile, runs, pc, paramVars, localVars,
                   selVars, ghostVars, saved>>

\* The user likes a song: the service stamps it with the current time and
\* lists it first (most recently added first).
RemoteLike ==
    /\ likes < MaxLikes
    /\ likes' = likes + 1
    /\ remote' = <<Item(100 + likes, ZText(now))>> \o remote
    /\ stable' = FALSE
    /\ UNCHANGED plVars
    /\ UNCHANGED <<now, cacheFile, runs, pc, paramVars, localVars, selVars,
                   calls, passes, fileAtStart, saved>>

Next ==
    \/ \E s \in BOOLEAN, u \in BOOLEAN : Start(s, u)
    \/ CheckPage
    \/ FetchPage
    \/ Tick
    \/ RemoteLike

Spec == Init /\ [][Next]_vars

(***************************************************************************)
(* The selection on its own: get_liked_songs has returned some list and    *)
(* update_true_shuffle(num_songs=k) selects from it.                       *)
(***************************************************************************)
\* Lists get_liked_songs may have returned, among them one with two equal items.
LikedLists == InitRemotes \cup {<<StaleItem, StaleItem>>, <<StaleItem, Item(1, ZText(1)), StaleItem>>}

InitSelect ==
    /\ now = StartTime
    /\ remote = <<>>
    /\ likes = 0
    /\ cacheFile = NoFile
    /\ runs = 1
    /\ pc = "returned"
    /\ save_to_disk = TRUE
    /\ use_cache = TRUE
    /\ cached_tracks = None
    /\ cache_timestamp = None
    /\ new_tracks = None
    /\ tracks = <<>>
    /\ all_tracks = <<>>
    /\ next = 0
    /\ returned \in {PyList(l) : l \in LikedLists}
    /\ exc = ""
    /\ requested = 0
    /\ num_songs = 0
    /\ warned = FALSE
    /\ positions = <<>>
    /\ random_tracks = <<>>
    /\ track_uris = <<>>
    /\ calls = NoCalls
    /\ passes = NoCalls
    /\ stable = TRUE
    /\ fileAtStart = cacheFile
    /\ saved = NoSave
    /\ NoShuffleRun

NextSelect == \E k \in 0..MaxNumSongs : Select(k)

SpecSelect == InitSelect /\ [][NextSelect]_vars

(***************************************************************************)
(* Notions the properties are stated in, read off the cache file text and  *)
(* the remote collection directly.                                         *)
(***************************************************************************)
\* The text is a timestamp, and the instant it denotes (naive text is UTC).
HasInstant(text) == text.fmt \in {"Z", "offset", "naive"}
InstantOf(text) == IF text.fmt = "offset" THEN text.t - text.off ELSE text.t

ItemDated(item) ==
    /\ "added_at" \in DOMAIN item.d
    /\ HasInstant(item.d["added_at"].text)
ItemLater(item, T) == ItemDated(item) /\ InstantOf(item.d["added_at"].text) > T

IsObjectFile(f) == f.exists /\ f.content.js = "object"
FileKeys(f) == {f.content.members[i].key : i \in 1..Len(f.content.members)}
FileValue(f, k) ==
    f.content.members[CHOOSE i \in 1..Len(f.content.members) :
                          f.content.members[i].key = k].value

\* The file holds a snapshot: an object with a list of tracks.
HoldsSnapshot(f) ==
    /\ IsObjectFile(f)
    /\ "tracks" \in FileKeys(f)
    /\ FileValue(f, "tracks").js = "array"
SnapshotItems(f) == json_load(FileValue(f, "tracks")).items

\* The snapshot's capture timestamp is a timestamp.
HasCaptureInstant(f) ==
    /\ IsObjectFile(f)
    /\ "timestamp" \in FileKeys(f)
    /\ FileValue(f, "timestamp").js = "string"
    /\ HasInstant(FileValue(f, "timestamp").text)
CaptureInstant(f) == InstantOf(FileValue(f, "timestamp").text)

\* Page requests one pass over a collection of n items takes.
PagesOf(n) == IF n = 0 THEN 1 ELSE (n + PageLimit - 1) \div PageLimit

\* The run of get_liked_songs(use_cache=True) has returned; it loaded a
\* snapshot with a capture instant and the remote collection did not change
\* while it ran.
ReturnedOverSnapshot ==
    /\ pc = "returned"
    /\ use_cache
    /\ stable
    /\ HoldsSnapshot(fileAtStart)
    /\ HasCaptureInstant(fileAtStart)

RemoteHasLater ==
    \E i \in 1..Len(remote) : ItemLater(remote[i], CaptureInstant(fileAtStart))

(***************************************************************************)
(* C1.  Cache hit: when get_liked_songs(use_cache=True) loads a snapshot S *)
(* and no remote item was added strictly later than S's capture timestamp, *)
(* it returns exactly S's items, in order, and makes no page request       *)
(* beyond the one paginated pass of get_new_liked_songs_since.             *)
(***************************************************************************)
C1_CacheHit ==
    (ReturnedOverSnapshot /\ ~RemoteHasLater)
        => /\ returned = PyList(SnapshotItems(fileAtStart))
           /\ passes = [check |-> 1, fetch |-> 0]
           /\ calls = [check |-> PagesOf(Len(remote)), fetch |-> 0]

\* A cache hit over a non-empty snapshot whose change check took two pages.
C1_Witness ==
    /\ ReturnedOverSnapshot
    /\ ~RemoteHasLater
    /\ Len(SnapshotItems(fileAtStart)) > 0
    /\ calls.check = 2
    /\ returned = PyList(SnapshotItems(fileAtStart))

(***************************************************************************)
(* C2.  Refresh on change: when some remote item was added strictly later  *)
(* than the cached capture timestamp, get_liked_songs makes a full         *)
(* refetch, and the capture timestamp of the snapshot that refetch saves   *)
(* is strictly later than that of the snapshot it replaces.                *)
(***************************************************************************)
C2_RefreshOnChange ==
    (ReturnedOverSnapshot /\ RemoteHasLater)
        => /\ passes.fetch = 1
           /\ returned = PyList(remote)
           /\ save_to_disk =>
                 /\ saved.done /\ saved.run = runs
                 /\ HoldsSnapshot(cacheFile)
                 /\ HasCaptureInstant(cacheFile)
                 /\ CaptureInstant(cacheFile) > CaptureInstant(fileAtStart)

\* A refetch that replaced a snapshot because of a later remote item.
C2_Witness ==
    /\ ReturnedOverSnapshot
    /\ RemoteHasLater
    /\ save_to_disk
    /\ saved.run = runs
    /\ passes.fetch = 1
    /\ CaptureInstant(cacheFile) > CaptureInstant(fileAtStart)

(***************************************************************************)
(* C3.  The cache holds the items of the collection captured at T0 and the *)
(* remote gains one item at T1 > T0: one run of get_liked_songs produces a *)
(* snapshot with one item more and drains the paginated collection exactly *)
(* once.  (The scenario's 10 items are the n items of the snapshot here.)  *)
(***************************************************************************)
\* The scenario: the remote collection is the snapshot's items preceded by
\* one item added later than the capture instant.
OneItemGained ==
    /\ ReturnedOverSnapshot
    /\ save_to_disk
    /\ Len(SnapshotItems(fileAtStart)) > 0
    /\ Len(remote) = Len(SnapshotItems(fileAtStart)) + 1
    /\ Tail(remote) = SnapshotItems(fileAtStart)
    /\ ItemLater(remote[1], CaptureInstant(fileAtStart))
    /\ \A i \in 2..Len(remote) : ~ItemLater(remote[i], CaptureInstant(fileAtStart))

GainedSnapshotSaved ==
    /\ Len(returned.items) = Len(SnapshotItems(fileAtStart)) + 1
    /\ HoldsSnapshot(cacheFile)
    /\ Len(SnapshotItems(cacheFile)) = Len(SnapshotItems(fileAtStart)) + 1
    /\ FileValue(cacheFile, "total_count") = JNumber(Len(SnapshotItems(fileAtStart)) + 1)

\* The claim as stated: exactly one pass.
C3_OnePass ==
    OneItemGained => (GainedSnapshotSaved /\ passes.check + passes.fetch = 1)

\* Amended: two passes, one of the change check and one of the full refetch.
C3_TwoPasses ==
    OneItemGained
        => /\ GainedSnapshotSaved
           /\ passes = [check |-> 1, fetch |-> 1]
           /\ calls = [check |-> PagesOf(Len(remote)), fetch |-> PagesOf(Len(remote))]

\* The scenario with a snapshot of two items: each pass takes two pages.
C3_Witness ==
    /\ OneItemGained
    /\ Len(SnapshotItems(fileAtStart)) = 2
    /\ GainedSnapshotSaved
    /\ calls = [check |-> 2, fetch |-> 2]

(***************************************************************************)
(* C4.  The list get_liked_songs returns is either exactly the list loaded *)
(* from the cache or exactly the list the full fetch accumulated, never a  *)
(* mix: the change check's items and the new items are not merged in.      *)
(***************************************************************************)
C4_NeverMixed ==
    pc = "returned"
        => \/ /\ passes.fetch = 0
              /\ use_cache
              /\ returned = load_liked_songs_from_disk(fileAtStart).tracks
           \/ /\ passes.fetch = 1
              /\ returned = PyList(tracks)
              /\ stable => tracks = remote

\* A cache hit whose change check collected items that differ from the
\* cached ones.
C4_Witness ==
    /\ pc = "returned"
    /\ passes.fetch = 0
    /\ stable
    /\ all_tracks # <<>>
    /\ returned.items # <<>>
    /\ returned.items # all_tracks
    /\ returned = load_liked_songs_from_disk(fileAtStart).tracks

(***************************************************************************)
(* C5.  For every malformed cache file (not valid JSON, valid JSON that is *)
(* not an object, or an object lacking or nulling the tracks or timestamp  *)
(* field) load_liked_songs_from_disk and get_liked_songs behave as if the  *)
(* file were absent: no exception reaches the caller and get_liked_songs   *)
(* ends with a full refetch.                                               *)
(***************************************************************************)
Malformed(f) ==
    /\ f.exists
    /\ \/ f.content.js # "object"
       \/ /\ f.content.js = "object"
          /\ \/ "tracks" \notin FileKeys(f)
             \/ "timestamp" \notin FileKeys(f)
             \/ FileValue(f, "tracks").js = "null"
             \/ FileValue(f, "timestamp").js = "null"

C5_MalformedAsAbsent ==
    (runs >= 1 /\ use_cache /\ Malformed(fileAtStart))
        => /\ load_liked_songs_from_disk(fileAtStart) = load_liked_songs_from_disk(NoFile)
           /\ pc # "raised"
           /\ pc = "returned" => (passes.fetch = 1 /\ returned = PyList(tracks))

(***************************************************************************)
(* C6.  Whenever the change check is indeterminate (the cache timestamp is *)
(* missing or cannot be parsed, get_new_liked_songs_since returns None),   *)
(* get_liked_songs makes a full refetch and never returns the cached       *)
(* items: None is not taken for the empty list of new items.               *)
(***************************************************************************)
IndeterminateRun ==
    /\ runs >= 1
    /\ use_cache
    /\ HoldsSnapshot(fileAtStart)
    /\ ~HasCaptureInstant(fileAtStart)

C6_IndeterminateRefetches ==
    IndeterminateRun
        => /\ pc \in {"check", "fetch", "returned"}
           /\ pc \in {"fetch", "returned"} => IsNone(new_tracks)
           /\ pc = "returned" => (passes.fetch = 1 /\ returned = PyList(tracks))

\* A refetch after a change check that made its pass and could not parse the
\* timestamp, over a snapshot that is not what the remote holds.
C6_Witness ==
    /\ IndeterminateRun
    /\ pc = "returned"
    /\ stable
    /\ passes = [check |-> 1, fetch |-> 1]
    /\ IsNone(new_tracks)
    /\ SnapshotItems(fileAtStart) # <<>>
    /\ returned.items # SnapshotItems(fileAtStart)

(***************************************************************************)
(* C7.  In get_new_liked_songs_since every item whose added_at is missing  *)
(* or unparseable is skipped (not new); it never makes the call fail or    *)
(* return None, and the other items are still classified.                  *)
(***************************************************************************)
InSeq(x, seq) == \E i \in 1..Len(seq) : seq[i] = x

CheckDone == passes.check = 1 /\ HasCaptureInstant(fileAtStart)

C7_UndatedSkipped ==
    (CheckDone /\ \E i \in 1..Len(all_tracks) : ~ItemDated(all_tracks[i]))
        => /\ pc # "raised"
           /\ exc = ""
           /\ ~IsNone(new_tracks)
           /\ \A i \in 1..Len(all_tracks) :
                 InSeq(all_tracks[i], new_tracks.items)
                    <=> ItemLater(all_tracks[i], CaptureInstant(fileAtStart))

\* A check over an item without added_at, one with an unparseable added_at
\* and a new item.
C7_Witness ==
    /\ CheckDone
    /\ \E i \in 1..Len(all_tracks) : "added_at" \notin DOMAIN all_tracks[i].d
    /\ \E i \in 1..Len(all_tracks) :
          /\ "added_at" \in DOMAIN all_tracks[i].d
          /\ ~HasInstant(all_tracks[i].d["added_at"].text)
    /\ ~IsNone(new_tracks)
    /\ Len(new_tracks.items) = 1

(***************************************************************************)
(* C8.  For a parseable cache timestamp T get_new_liked_songs_since        *)
(* returns exactly the remote items, in remote order and across all pages, *)
(* whose added_at is strictly later than T; an item added at T is not new. *)
(***************************************************************************)
C8_StrictlyLater ==
    CheckDone
        => /\ ~IsNone(new_tracks)
           /\ stable => all_tracks = remote
           /\ new_tracks.items =
                 SelectSeq(all_tracks,
                           LAMBDA item : ItemLater(item, CaptureInstant(fileAtStart)))

\* A two-page check with a new item on each page.
C8_Witness ==
    /\ CheckDone
    /\ stable
    /\ calls.check = 2
    /\ ~IsNone(new_tracks)
    /\ Len(new_tracks.items) >= 2
    /\ InSeq(remote[3], new_tracks.items)

\* A check over an item added exactly at T, which is not reported.
C8_WitnessEqual ==
    /\ CheckDone
    /\ stable
    /\ \E i \in 1..Len(remote) :
          /\ ItemDated(remote[i])
          /\ InstantOf(remote[i].d["added_at"].text) = CaptureInstant(fileAtStart)
    /\ ~IsNone(new_tracks)
    /\ new_tracks.items # <<>>

(***************************************************************************)
(* C9.  Selection of update_true_shuffle: for a requested count k <=       *)
(* len(items) the selected list holds exactly k items, taken from k        *)
(* distinct positions of items; for k > len(items) it holds all of items,  *)
(* each position once, and the clamp warning is printed.                   *)
(***************************************************************************)
DistinctPositions ==
    \A i, j \in 1..Len(positions) : i # j => positions[i] # positions[j]

TakenFromPositions ==
    /\ Len(positions) = Len(random_tracks)
    /\ \A i \in 1..Len(positions) :
          /\ positions[i] \in 1..Len(returned.items)
          /\ random_tracks[i] = returned.items[positions[i]]

C9_Selection ==
    pc = "selected"
        => /\ TakenFromPositions
           /\ DistinctPositions
           /\ requested <= Len(returned.items)
                 => (Len(random_tracks) = requested /\ ~warned)
           /\ requested > Len(returned.items)
                 => /\ Len(random_tracks) = Len(returned.items)
                    /\ {positions[i] : i \in 1..Len(positions)} = 1..Len(returned.items)
                    /\ warned

\* Two of three items selected, out of order.
C9_Witness ==
    /\ pc = "selected"
    /\ Len(returned.items) = 3
    /\ requested = 2
    /\ positions = <<3, 1>>
    /\ Len(track_uris) = 2

\* A clamped selection of all of two equal items.
C9_WitnessClamp ==
    /\ pc = "selected"
    /\ requested > Len(returned.items)
    /\ returned.items = <<StaleItem, StaleItem>>
    /\ Len(random_tracks) = 2
    /\ warned

(***************************************************************************)
(* C10.  Round trip: save_liked_songs_to_disk(items) followed by           *)
(* load_liked_songs_from_disk() yields the same items in the same order,   *)
(* and the stored total_count equals len(items).                           *)
(***************************************************************************)
C10_RoundTrip ==
    saved.done
        => /\ load_liked_songs_from_disk(cacheFile).exc = ""
           /\ load_liked_songs_from_disk(cacheFile).tracks = saved.tracks
           /\ IsObjectFile(cacheFile)
           /\ "total_count" \in FileKeys(cacheFile)
           /\ FileValue(cacheFile, "total_count") = JNumber(Len(saved.tracks.items))

\* A later run has loaded the three items an earlier run saved.
C10_Witness ==
    /\ saved.done
    /\ saved.run < runs
    /\ use_cache
    /\ pc = "check"
    /\ Len(saved.tracks.items) = 3
    /\ cached_tracks = saved.tracks
    /\ \E i \in 1..3 : ~ItemDated(cached_tracks.items[i])

(***************************************************************************)
(* update_true_shuffle: the destination playlist is resolved, cleared and, *)
(* after get_liked_songs and the selection, repopulated.                   *)
(***************************************************************************)
\* Largest number of entries of the destination playlist initially.
MaxMembers == 3
\* Largest number of liked songs in a run of update_true_shuffle.
MaxLiked == 3

\* Page size of the playlist-membership endpoint (limit=100 in the source)
\* and size of a removal or append batch (100 in the source), scaled.
ItemsLimit == 2
BatchLimit == 2

\* Entries of a playlist as sp.playlist_items returns them: with a track and
\* its URI, with a null track, with a track that has no URI.
Entry(uri) == PyDict([track |-> PyDict([uri |-> uri])])
NullTrackEntry == PyDict([track |-> None])
NoUriEntry == PyDict([track |-> PyDict([uri |-> None])])

\* Truth value of a Python value in a condition.
Truthy(v) ==
    CASE v.py = "None" -> FALSE
      [] v.py = "str" -> v.text.fmt # "empty"
      [] OTHER -> TRUE

\* if item['track'] and item['track']['uri']
ValidEntry(item) ==
    Truthy(item.d["track"]) /\ Truthy(item.d["track"].d["uri"])

\* track_uris of clear_playlist
RemovableUris(items) ==
    LET valid == SelectSeq(items, ValidEntry)
    IN  [i \in 1..Len(valid) |-> valid[i].d["track"].d["uri"]]

\* Mutant of Batch: the slice uris[i:i + 100 + 1].
BatchOneMore(uris, i) == SubSeq(uris, i + 1, Min(i + BatchLimit + 1, Len(uris)))

\* Mutant of Batch: the slice uris[i + 1:i + 100], the first URI of every batch lost.
BatchDropsFirst(uris, i) == SubSeq(uris, i + 2, Min(i + BatchLimit, Len(uris)))

\* batch = uris[i:i + 100]
Batch(uris, i) == SubSeq(uris, i + 1, Min(i + BatchLimit, Len(uris)))

\* Mutant of NextBatchStart: the loop ends after the first batch.
NextBatchStartEnds(uris, i) == Len(uris)

\* The next i of "for i in range(0, len(uris), 100)".
NextBatchStart(uris, i) == i + BatchLimit

\* Mutant of ItemsPage: the first page is taken for the whole membership.
ItemsPageFirstOnly(members, offset) ==
    [items |-> SubSeq(members, offset + 1, Min(offset + ItemsLimit, Len(members))),
     next |-> 0]

\* One page of the membership: sp.playlist_items(playlist_id, limit) for
\* offset 0, sp.next(results) after it.  next = 0 stands for None.
ItemsPage(members, offset) ==
    [items |-> SubSeq(members, offset + 1, Min(offset + ItemsLimit, Len(members))),
     next |-> IF offset + ItemsLimit < Len(members) THEN offset + ItemsLimit ELSE 0]

\* What the service does with the membership on
\* playlist_remove_all_occurrences_of_items and on playlist_add_items.
RemoveAllOccurrences(members, uris) ==
    SelectSeq(members,
              LAMBDA e : ~(ValidEntry(e)
                           /\ \E i \in 1..Len(uris) : uris[i] = e.d["track"].d["uri"]))
AddItems(members, uris) == members \o [i \in 1..Len(uris) |-> Entry(uris[i])]

\* Mutant of PlaylistIdOf: TRUE_SHUFFLE_PLAYLIST_ID is used instead of playlist['id'].
PlaylistIdConfigured(id) == ConfiguredId

\* playlist_id = playlist['id'], for the playlist get_or_create_playlist returned.
PlaylistIdOf(id) == id

\* Mutant of MayIssue: requests are sent without waiting for the answer of
\* the one before.
MayIssueAlways == TRUE

\* Every spotipy call blocks until the service has answered: a request is
\* issued only when none is outstanding.
MayIssue == outstanding = <<>>

Request(op, id, uris) == [op |-> op, id |-> id, uris |-> uris, result |-> "pending"]

\* The request the code issues at a position.
RequestAt(position) ==
    CASE position = "get_playlist" -> Request("playlist", ConfiguredId, <<>>)
      [] position = "set_public" -> Request("change_public", ConfiguredId, <<>>)
      [] position = "refresh" -> Request("playlist", ConfiguredId, <<>>)
      [] position = "current_user" -> Request("current_user", "", <<>>)
      [] position = "create" -> Request("create", "", <<>>)
      [] position = "resolved" -> Request("change_description", playlist_id, <<>>)
      [] position = "clear" -> Request("playlist_items", playlist_id, <<>>)
      [] position = "remove" ->
            Request("remove", playlist_id, Batch(remove_uris, batch_start))
      [] position = "selected" ->
            Request("add", playlist_id, Batch(track_uris, batch_start))

CallPositions == {"get_playlist", "set_public", "refresh", "current_user", "create",
                  "resolved", "clear", "remove", "selected"}

\* The code issues the request of its position.
Call ==
    /\ pc \in CallPositions
    /\ MayIssue
    /\ pc = "remove" => batch_start < Len(remove_uris)
    /\ pc = "selected" => batch_start < Len(track_uris)
    /\ log' = Append(log, RequestAt(pc))
    /\ outstanding' = Append(outstanding, Len(log) + 1)
    /\ UNCHANGED <<pc, exc, playlists, playlistsAtStart, playlist_id, tracks_to_remove,
                   remove_uris, items_next, batch_start>>
    /\ UNCHANGED <<envVars, cacheFile, runs, paramVars, cached_tracks, cache_timestamp,
                   new_tracks, tracks, all_tracks, next, returned, selVars, ghostVars,
                   saved>>

\* The request answered next, and the log with its result.
Answered == log[Head(outstanding)]
LogWith(result) == [log EXCEPT ![Head(outstanding)].result = result]

\* The service can answer the request with success.
CanSucceed(r) ==
    r.op \in {"playlist", "change_public", "change_description", "playlist_items",
              "remove", "add"}
        => playlists[r.id].exists

\* The answer to the request is taken off the outstanding ones.
Answer(result) ==
    /\ outstanding # <<>>
    /\ result = "ok" => CanSucceed(Answered)
    /\ log' = LogWith(result)
    /\ outstanding' = Tail(outstanding)

\* Mutant of Propagate: the exception is swallowed and the code goes on
\* where it was.
Swallow == UNCHANGED <<pc, exc>>

\* An exception that no handler of the run catches ends the run.
Propagate ==
    /\ pc' = "error"
    /\ exc' = "SpotifyException"

\* get_or_create_playlist gets the answer to one of its requests.  Any
\* exception in the try block leads to the handler, which creates a playlist;
\* an exception in the handler propagates.
ResolveReturn(result) ==
    /\ pc \in {"get_playlist", "set_public", "refresh", "current_user", "create"}
    /\ Answer(result)
    /\ CASE pc \in {"get_playlist", "set_public", "refresh"} /\ result = "fail" ->
                /\ pc' = "current_user"
                /\ UNCHANGED <<exc, playlists, playlist_id>>
         [] pc = "get_playlist" /\ result = "ok" ->
                /\ IF playlists[ConfiguredId].public # FALSE
                   THEN /\ pc' = "set_public"
                        /\ UNCHANGED playlist_id
                   ELSE /\ pc' = "resolved"
                        /\ playlist_id' = PlaylistIdOf(ConfiguredId)
                /\ UNCHANGED <<exc, playlists>>
         [] pc = "set_public" /\ result = "ok" ->
                /\ playlists' = [playlists EXCEPT ![ConfiguredId].public = FALSE]
                /\ pc' = "refresh"
                /\ UNCHANGED <<exc, playlist_id>>
         [] pc = "refresh" /\ result = "ok" ->
                /\ pc' = "resolved"
                /\ playlist_id' = PlaylistIdOf(ConfiguredId)
                /\ UNCHANGED <<exc, playlists>>
         [] pc = "current_user" /\ result = "ok" ->
                /\ pc' = "create"
                /\ UNCHANGED <<exc, playlists, playlist_id>>
         [] pc = "create" /\ result = "ok" ->
                /\ playlists' = [playlists EXCEPT ![CreatedId] = Playlist(FALSE, <<>>)]
                /\ pc' = "resolved"
                /\ playlist_id' = PlaylistIdOf(CreatedId)
                /\ UNCHANGED exc
         [] pc \in {"current_user", "create"} /\ result = "fail" ->
                /\ Propagate
                /\ UNCHANGED <<playlists, playlist_id>>
    /\ UNCHANGED <<playlistsAtStart, tracks_to_remove, remove_uris, items_next, batch_start>>
    /\ UNCHANGED <<envVars, cacheFile, runs, paramVars, cached_tracks, cache_timestamp,
                   new_tracks, tracks, all_tracks, next, returned, selVars, ghostVars,
                   saved>>

\* The description update of update_true_shuffle is answered.
DescribeReturn(result) ==
    /\ pc = "resolved"
    /\ Answer(result)
    /\ IF result = "ok"
       THEN /\ pc' = "clear"
            /\ UNCHANGED exc
       ELSE Propagate
    /\ UNCHANGED <<playlists, playlistsAtStart, playlist_id, tracks_to_remove, remove_uris,
                   items_next, batch_start>>
    /\ UNCHANGED <<envVars, cacheFile, runs, paramVars, cached_tracks, cache_timestamp,
                   new_tracks, tracks, all_tracks, next, returned, selVars, ghostVars,
                   saved>>

\* The variant of update_true_shuffle without the description update goes
\* from get_or_create_playlist straight to clear_playlist.
SkipDescription ==
    /\ pc = "resolved"
    /\ outstanding = <<>>
    /\ pc' = "clear"
    /\ UNCHANGED <<exc, plVars>>
    /\ UNCHANGED <<envVars, cacheFile, runs, paramVars, cached_tracks, cache_timestamp,
                   new_tracks, tracks, all_tracks, next, returned, selVars, ghostVars,
                   saved>>

\* clear_playlist gets one page of the membership; after the last page it
\* returns at once when there is nothing to remove and else starts the
\* removal loop.
ItemsReturn(result) ==
    /\ pc = "clear"
    /\ Answer(result)
    /\ IF result = "ok"
       THEN LET results == ItemsPage(playlists[Answered.id].members, items_next)
                collected == tracks_to_remove \o results.items
                uris == RemovableUris(collected)
            IN  /\ tracks_to_remove' = collected
                /\ IF results.next # 0
                   THEN /\ items_next' = results.next
                        /\ pc' = "clear"
                        /\ UNCHANGED remove_uris
                   ELSE /\ items_next' = 0
                        /\ IF collected = <<>> \/ uris = <<>>
                           THEN /\ pc' = "idle"
                                /\ UNCHANGED remove_uris
                           ELSE /\ pc' = "remove"
                                /\ remove_uris' = uris
                /\ UNCHANGED exc
       ELSE /\ Propagate
            /\ UNCHANGED <<tracks_to_remove, remove_uris, items_next>>
    /\ UNCHANGED <<playlists, playlistsAtStart, playlist_id, batch_start>>
    /\ UNCHANGED <<envVars, cacheFile, runs, paramVars, cached_tracks, cache_timestamp,
                   new_tracks, tracks, all_tracks, next, returned, selVars, ghostVars,
                   saved>>

\* A removal batch or an append batch is answered: the service has applied
\* it and the loop goes on, or the exception leaves the loop.
BatchReturn(result) ==
    /\ pc \in {"remove", "selected"}
    /\ Answer(result)
    /\ Answered.op \in {"remove", "add"}
    /\ IF result = "ok"
       THEN LET uris == IF pc = "remove" THEN remove_uris ELSE track_uris
                i == NextBatchStart(uris, batch_start)
                members == playlists[Answered.id].members
            IN  /\ playlists' =
                       [playlists EXCEPT ![Answered.id].members =
                           IF Answered.op = "remove"
                           THEN RemoveAllOccurrences(members, Answered.uris)
                           ELSE AddItems(members, Answered.uris)]
                /\ IF i < Len(uris)
                   THEN /\ batch_start' = i
                        /\ UNCHANGED pc
                   ELSE /\ batch_start' = 0
                        /\ pc' = IF pc = "remove" THEN "idle" ELSE "done"
                /\ UNCHANGED exc
       ELSE /\ Propagate
            /\ UNCHANGED <<playlists, batch_start>>
    /\ UNCHANGED <<playlistsAtStart, playlist_id, tracks_to_remove, remove_uris, items_next>>
    /\ UNCHANGED <<envVars, cacheFile, runs, paramVars, cached_tracks, cache_timestamp,
                   new_tracks, tracks, all_tracks, next, returned, selVars, ghostVars,
                   saved>>

\* With no URI selected the append loop has no iteration.
PopulateNothing ==
    /\ pc = "selected"
    /\ track_uris = <<>>
    /\ outstanding = <<>>
    /\ pc' = "done"
    /\ UNCHANGED <<exc, plVars>>
    /\ UNCHANGED <<envVars, cacheFile, runs, paramVars, cached_tracks, cache_timestamp,
                   new_tracks, tracks, all_tracks, next, returned, selVars, ghostVars,
                   saved>>

\* Mutant of CacheOnRaise: the pages fetched so far are saved before the
\* exception leaves get_liked_songs.
CacheOnRaiseSavesPartial ==
    /\ cacheFile' = save_liked_songs_to_disk(PyList(tracks), now)
    /\ UNCHANGED saved

\* The exception leaves get_liked_songs before save_liked_songs_to_disk is
\* reached: the cache file stays as it is.
CacheOnRaise == UNCHANGED <<cacheFile, saved>>

\* A request of get_liked_songs to the remote service raises: nothing in
\* get_liked_songs or update_true_shuffle catches it.
LikedSongsRaise ==
    /\ pc \in {"check", "fetch"}
    /\ Propagate
    /\ CacheOnRaise
    /\ UNCHANGED plVars
    /\ UNCHANGED <<envVars, runs, paramVars, cached_tracks, cache_timestamp,
                   new_tracks, tracks, all_tracks, next, returned, selVars, ghostVars>>

\* The liked songs of a run of update_true_shuffle, and the cache it finds:
\* none, or the snapshot of the liked songs as they are.
ShuffleItems(n) == [i \in 1..n |-> Item(i, ZText(1))]
ShuffleRemotes == {ShuffleItems(1), ShuffleItems(MaxLiked)}
ShuffleFiles(liked) == {NoFile, File(SnapshotText(JString(ZText(1)), liked))}

\* The memberships of the destination the run can find: an entry is a
\* track of its own, the first track once more, or an entry without a track
\* or without a URI.
MemberAt(i) ==
    {Entry(PyStr(UriText(i))), Entry(PyStr(UriText(1))), NullTrackEntry, NoUriEntry}
MemberLists ==
    UNION {{m \in [1..n -> UNION {MemberAt(i) : i \in 1..n}] :
               \A i \in 1..n : m[i] \in MemberAt(i)} : n \in 0..MaxMembers}
ConfiguredPlaylists ==
    {NoPlaylist} \cup {Playlist(p, m) : p \in BOOLEAN, m \in MemberLists}

InitShuffle ==
    /\ now = StartTime
    /\ remote \in ShuffleRemotes
    /\ likes = 0
    /\ cacheFile \in ShuffleFiles(remote)
    /\ runs = 0
    /\ pc = "get_playlist"
    /\ save_to_disk = TRUE
    /\ use_cache = TRUE
    /\ cached_tracks = None
    /\ cache_timestamp = None
    /\ new_tracks = None
    /\ tracks = <<>>
    /\ all_tracks = <<>>
    /\ next = 0
    /\ returned = None
    /\ exc = ""
    /\ requested = 0
    /\ num_songs = 0
    /\ warned = FALSE
    /\ positions = <<>>
    /\ random_tracks = <<>>
    /\ track_uris = <<>>
    /\ calls = NoCalls
    /\ passes = NoCalls
    /\ stable = TRUE
    /\ fileAtStart = cacheFile
    /\ saved = NoSave
    /\ \E c \in ConfiguredPlaylists :
          playlists = [id \in PlaylistIds |-> IF id = ConfiguredId THEN c ELSE NoPlaylist]
    /\ playlistsAtStart = playlists
    /\ playlist_id = ""
    /\ tracks_to_remove = <<>>
    /\ remove_uris = <<>>
    /\ items_next = 0
    /\ batch_start = 0
    /\ outstanding = <<>>
    /\ log = <<>>

NextShuffle ==
    \/ Call
    \/ \E result \in {"ok", "fail"} : ResolveReturn(result)
    \/ \E result \in {"ok", "fail"} : DescribeReturn(result)
    \/ SkipDescription
    \/ \E result \in {"ok", "fail"} : ItemsReturn(result)
    \/ \E result \in {"ok", "fail"} : BatchReturn(result)
    \/ pc = "idle" /\ Start(TRUE, TRUE)
    \/ CheckPage
    \/ FetchPage
    \/ LikedSongsRaise
    \/ \E k \in 0..MaxNumSongs : Select(k)
    \/ PopulateNothing

SpecShuffle == InitShuffle /\ [][NextShuffle]_vars

(***************************************************************************)
(* Notions the playlist properties are stated in.                          *)
(***************************************************************************)
Ceil(n, d) == (n + d - 1) \div d

\* The requests of one kind, in the order they were issued.
LogOf(op) == SelectSeq(log, LAMBDA r : r.op = op)

RECURSIVE Concat(_)
Concat(batches) ==
    IF batches = <<>> THEN <<>> ELSE Head(batches).uris \o Concat(Tail(batches))

IsPrefix(s, t) == Len(s) <= Len(t) /\ s = SubSeq(t, 1, Len(s))

\* The membership the resolved destination had when the run started.
MembersAtStart ==
    IF playlist_id \in PlaylistIds THEN playlistsAtStart[playlist_id].members ELSE <<>>

\* The entries of a membership that carry a track with a URI.
HasTrackUri(e) ==
    /\ e.d["track"].py = "dict"
    /\ e.d["track"].d["uri"].py = "str"
    /\ e.d["track"].d["uri"].text.fmt # "empty"
UrisIn(members) ==
    LET with == SelectSeq(members, HasTrackUri)
    IN  [i \in 1..Len(with) |-> with[i].d["track"].d["uri"]]

\* The membership after the answered batches of the log, up to request n,
\* have been applied one after another.
RECURSIVE AppliedUpTo(_, _)
AppliedUpTo(members, n) ==
    IF n = 0 THEN members
    ELSE LET before == AppliedUpTo(members, n - 1)
             r == log[n]
         IN  CASE r.op = "remove" /\ r.result = "ok" ->
                     RemoveAllOccurrences(before, r.uris)
               [] r.op = "add" /\ r.result = "ok" -> AddItems(before, r.uris)
               [] OTHER -> before

\* C11: the populate phase issues exactly ceil(n / BatchLimit) append
\* requests for a list of n URIs (none for n = 0), never more while it runs,
\* and every append request carries at least 1 and at most BatchLimit URIs.
C11_AppendBatches ==
    /\ \A i \in 1..Len(log) :
          log[i].op = "add" => Len(log[i].uris) \in 1..BatchLimit
    /\ Len(LogOf("add")) <= Ceil(Len(track_uris), BatchLimit)
    /\ pc = "done" => Len(LogOf("add")) = Ceil(Len(track_uris), BatchLimit)

\* A run that appended a list needing a full batch and a shorter last one.
C11_Witness ==
    /\ pc = "done"
    /\ Len(track_uris) > BatchLimit
    /\ Len(track_uris) % BatchLimit # 0
    /\ Len(LogOf("add")) = 2

\* C12 as stated: once clear_playlist has returned, it has issued
\* ceil(m / BatchLimit) removal requests for a membership of m entries.
C12_BatchesPerEntry ==
    pc = "idle" => Len(LogOf("remove")) = Ceil(Len(MembersAtStart), BatchLimit)

\* C12: clear_playlist issues exactly ceil(v / BatchLimit) removal requests
\* for a membership with v entries that carry a track URI, each request with
\* at least 1 and at most BatchLimit URIs, and the batches together are those
\* URIs in membership order.
C12_RemovalBatches ==
    /\ \A i \in 1..Len(log) :
          log[i].op = "remove" => Len(log[i].uris) \in 1..BatchLimit
    /\ IsPrefix(Concat(LogOf("remove")), UrisIn(MembersAtStart))
    /\ pc = "idle" =>
          /\ Len(LogOf("remove")) = Ceil(Len(UrisIn(MembersAtStart)), BatchLimit)
          /\ Concat(LogOf("remove")) = UrisIn(MembersAtStart)

\* clear_playlist has returned after one full removal batch over a
\* membership that also has an entry without a track URI.
C12_Witness ==
    /\ pc = "idle"
    /\ Len(LogOf("remove")) = 1
    /\ Len(UrisIn(MembersAtStart)) = BatchLimit
    /\ Len(MembersAtStart) > BatchLimit

\* clear_playlist has returned after a full removal batch and a shorter one.
C12_WitnessTwoBatches ==
    /\ pc = "idle"
    /\ Len(LogOf("remove")) = 2
    /\ Len(LogOf("remove")[2].uris) < BatchLimit

\* C13: the append batches, concatenated in the order they were issued, are
\* a prefix of the submitted URI list while the populate phase runs and the
\* whole list when it has ended.
C13_OrderPreserved ==
    /\ IsPrefix(Concat(LogOf("add")), track_uris)
    /\ pc = "done" => Concat(LogOf("add")) = track_uris

\* A run that appended more than one batch.
C13_Witness ==
    /\ pc = "done"
    /\ Len(LogOf("add")) > 1
    /\ Concat(LogOf("add")) = track_uris

\* C14: when a removal batch or an append batch has failed, it is the last
\* request of the run, the run has ended with the error, and the membership
\* of the destination is the one the batches answered before it left.
C14_BatchFailure ==
    \A i \in 1..Len(log) :
        log[i].op \in {"remove", "add"} /\ log[i].result = "fail" =>
            /\ i = Len(log)
            /\ outstanding = <<>>
            /\ pc = "error"
            /\ exc # ""
            /\ playlists[playlist_id].members = AppliedUpTo(MembersAtStart, i - 1)

\* The second append batch failed after the first one was applied.
C14_Witness ==
    /\ Len(LogOf("add")) = 2
    /\ LogOf("add")[1].result = "ok"
    /\ LogOf("add")[2].result = "fail"
    /\ playlists[playlist_id].members # <<>>

\* The second removal batch failed after the first one was applied.
C14_WitnessRemoval ==
    /\ Len(LogOf("remove")) = 2
    /\ LogOf("remove")[2].result = "fail"
    /\ Len(playlists[playlist_id].members) < Len(MembersAtStart)

\* The requests of the log that succeeded in creating a playlist.
Created == {i \in 1..Len(log) : log[i].op = "create" /\ log[i].result = "ok"}

\* C15 as stated, for the runs in which the first read of the configured id
\* succeeded (the id references an existing playlist): no create request
\* is issued and the configured playlist is the resolved destination, also
\* when the visibility update or the refresh read fails.
C15_CreateOnlyIfAbsent ==
    Len(log) >= 1 /\ log[1].result = "ok" =>
        /\ \A i \in 1..Len(log) : log[i].op # "create"
        /\ playlist_id \in {"", ConfiguredId}

\* C16: once a playlist has been created, the run's playlist_id is the
\* created id and every later request names the created id.
C16_CreatedIdUsed ==
    \A i \in Created :
        /\ playlist_id = CreatedId
        /\ \A j \in (i + 1)..Len(log) : log[j].id = CreatedId

\* A run on a created playlist that has issued the description update, the
\* membership read and an append batch.
C16_Witness ==
    /\ Created # {}
    /\ \A op \in {"change_description", "playlist_items", "add"} :
          \E j \in 1..Len(log) : log[j].op = op /\ log[j].id = CreatedId
    /\ pc = "done"

\* C17 as stated: no membership read, removal or append request is issued
\* before get_liked_songs has returned the liked songs.
C17_LikedSongsFirst ==
    \A i \in 1..Len(log) :
        log[i].op \in {"playlist_items", "remove", "add"} => ~IsNone(returned)

\* C19 as stated: after a run without error the membership of the
\* destination is the selected URIs in submitted order.
C19_OnlySelected ==
    pc = "done" =>
        playlists[playlist_id].members = AddItems(<<>>, track_uris)

\* The entries of a membership that carry no track URI.
WithoutUri(members) == SelectSeq(members, LAMBDA e : ~HasTrackUri(e))

\* C19: after a run without error the membership of the destination is the
\* entries without a track URI it had before the run, in their order,
\* followed by the selected URIs in submitted order.
C19_SelectedAfterUndeletable ==
    pc = "done" =>
        playlists[playlist_id].members =
            WithoutUri(MembersAtStart) \o AddItems(<<>>, track_uris)

\* A run without error over a membership of more than one page with tracks,
\* a repeated track and an entry without a track.
C19_Witness ==
    /\ pc = "done"
    /\ Len(MembersAtStart) > ItemsLimit
    /\ Len(UrisIn(MembersAtStart)) > 1
    /\ WithoutUri(MembersAtStart) # <<>>
    /\ Len(track_uris) > BatchLimit

\* C20: at most one request is outstanding, and when an append request is
\* issued every removal request has been answered and none follows it.
C20_OneAtATime ==
    /\ Len(outstanding) <= 1
    /\ \A i \in 1..Len(log) : \A j \in 1..Len(log) :
          log[i].op = "remove" /\ log[j].op = "add" =>
              i < j /\ log[i].result # "pending"

\* An append request is outstanding after two removal requests.
C20_Witness ==
    /\ Len(LogOf("remove")) = 2
    /\ outstanding # <<>>
    /\ log[Head(outstanding)].op = "add"

\* C18 as stated: when a run of get_liked_songs returns the cached list
\* after its change-check pass, the list is the remote collection that pass
\* observed.
C18_NeverStale ==
    pc = "returned" /\ use_cache /\ passes.check = 1 /\ passes.fetch = 0 =>
        returned = PyList(all_tracks)

(***************************************************************************)
(* get_liked_songs over a collection of more than one page, with requests  *)
(* that can fail and a user who likes songs while it runs.                 *)
(***************************************************************************)
\* Largest number of liked songs when the runs start.
MaxFetched == 3

\* The cache the first run finds: none, the snapshot of the collection as
\* it is, or an older snapshot, captured before the first item of the
\* collection was liked.
FetchFiles(liked) ==
    {NoFile,
     File(SnapshotText(JString(ZText(1)), liked)),
     File(SnapshotText(JString(ZText(0)), Rest(liked)))}

InitFetch ==
    /\ now = StartTime
    /\ remote \in {ShuffleItems(n) : n \in 0..MaxFetched}
    /\ likes = 0
    /\ cacheFile \in FetchFiles(remote)
    /\ runs = 0
    /\ pc = "idle"
    /\ save_to_disk = TRUE
    /\ use_cache = TRUE
    /\ cached_tracks = None
    /\ cache_timestamp = None
    /\ new_tracks = None
    /\ tracks = <<>>
    /\ all_tracks = <<>>
    /\ next = 0
    /\ returned = None
    /\ exc = ""
    /\ requested = 0
    /\ num_songs = 0
    /\ warned = FALSE
    /\ positions = <<>>
    /\ random_tracks = <<>>
    /\ track_uris = <<>>
    /\ calls = NoCalls
    /\ passes = NoCalls
    /\ stable = TRUE
    /\ fileAtStart = cacheFile
    /\ saved = NoSave
    /\ NoShuffleRun

NextFetch ==
    \/ \E s \in BOOLEAN, u \in BOOLEAN : Start(s, u)
    \/ CheckPage
    \/ FetchPage
    \/ LikedSongsRaise
    \/ Tick
    \/ RemoteLike

SpecFetch == InitFetch /\ [][NextFetch]_vars

\* C21: when a page request of get_liked_songs has raised, the run has ended
\* with the exception and the cache file is the one the run found; the cache
\* file differs from the one the run found only when the full fetch has
\* drained the collection and the run has returned.
C21_FailureKeepsSnapshot ==
    /\ pc = "error" => exc # "" /\ cacheFile = fileAtStart /\ IsNone(returned)
    /\ cacheFile # fileAtStart => pc = "returned" /\ passes.fetch = 1

\* The second page request of a full refetch raised in a run that had found
\* a snapshot.
C21_Witness ==
    /\ pc = "error"
    /\ calls.fetch = 1
    /\ passes.fetch = 0
    /\ HoldsSnapshot(fileAtStart)
    /\ HasCaptureInstant(fileAtStart)

\* C22 as stated, for the items liked before the capture instant: every
\* remote item with an added-at earlier than the capture timestamp of the
\* stored snapshot is an item of the stored snapshot.
C22_SnapshotComplete ==
    HoldsSnapshot(cacheFile) /\ HasCaptureInstant(cacheFile) =>
        \A i \in 1..Len(remote) :
            ItemDated(remote[i])
            /\ InstantOf(remote[i].d["added_at"].text) < CaptureInstant(cacheFile)
                => InSeq(remote[i], SnapshotItems(cacheFile))

\* The run found the cache file a full refetch of the collection as it is
\* now has written, and the collection did not change while it ran.
FoundSavedSnapshot ==
    /\ use_cache
    /\ stable
    /\ \E t \in StartTime..now :
          fileAtStart = save_liked_songs_to_disk(PyList(remote), t)

\* C23: a run of get_liked_songs(use_cache=True) that finds the snapshot a
\* full refetch of the unchanged collection has saved returns without a page
\* request of a full fetch, returns the list that refetch returned, and leaves
\* the cache file as it found it.
C23_Convergence ==
    pc = "returned" /\ FoundSavedSnapshot =>
        /\ calls.fetch = 0
        /\ passes.check = 1
        /\ returned = PyList(remote)
        /\ cacheFile = fileAtStart
        /\ ~(saved.done /\ saved.run = runs)

\* The second run has returned; the first one ended with a full refetch of
\* a non-empty collection and saved it.
C23_Witness ==
    /\ pc = "returned"
    /\ FoundSavedSnapshot
    /\ runs = 2
    /\ saved.done
    /\ saved.run = 1
    /\ saved.tracks = PyList(remote)
    /\ remote # <<>>

\* The run in progress has written the cache file.
WroteCache == saved.done /\ saved.run = runs

\* C24: a run that has returned without a page request of a full fetch has
\* not written the cache file, which is as the run found it; a run writes
\* the cache file only with save_to_disk set, when its full fetch has drained
\* the collection and it returns.
C24_CacheHitFrame ==
    /\ pc = "returned" /\ calls.fetch = 0 => cacheFile = fileAtStart /\ ~WroteCache
    /\ WroteCache => save_to_disk /\ passes.fetch = 1 /\ pc = "returned"
    /\ cacheFile # fileAtStart => WroteCache

\* A run has returned the items of the snapshot it found after the change
\* check.
C24_Witness ==
    /\ pc = "returned"
    /\ calls.fetch = 0
    /\ passes.check = 1
    /\ HoldsSnapshot(fileAtStart)
    /\ returned = PyList(SnapshotItems(fileAtStart))
    /\ returned.items # <<>>

\* A run with save_to_disk=False has returned after a full refetch and the
\* snapshot it found is still there.
C24_WitnessNoSave ==
    /\ pc = "returned"
    /\ passes.fetch = 1
    /\ ~save_to_disk
    /\ HoldsSnapshot(cacheFile)
    /\ returned # PyList(SnapshotItems(cacheFile))

(***************************************************************************)
(* One run of get_liked_songs in which no request fails and every step     *)
(* that can be taken is taken.                                             *)
(***************************************************************************)
NextRun ==
    \/ runs = 0 /\ \E s \in BOOLEAN, u \in BOOLEAN : Start(s, u)
    \/ CheckPage
    \/ FetchPage

SpecRun == Init /\ [][NextRun]_vars /\ WF_vars(NextRun)

\* C25 as stated: whatever the cache file holds, the run reaches the state
\* in which it has returned a list, after at most one change-check pass and
\* one full fetch.
C25_Terminates ==
    <>(pc = "returned" /\ ~IsNone(returned) /\ passes.check <= 1 /\ passes.fetch <= 1)

\* What holds of C25: the run ends, with a list returned or with the
\* exception of load_liked_songs_from_disk, and never makes more than one
\* change-check pass and one full fetch.
C25_ReturnsOrRaises ==
    /\ <>(pc \in {"returned", "raised"})
    /\ [](passes.check <= 1 /\ passes.fetch <= 1)
    /\ [](pc = "raised" => exc = "AttributeError" /\ calls = NoCalls)

====
